---- MODULE Spec2Model ----
(***************************************************************************)
(* light-tracking: the Timer state machine (internal/app, Timer and App)   *)
(* over the SQLite record store (internal/app/database.go).                *)
(*                                                                         *)
(* Instants are counted in clock ticks, TicksPerSecond ticks to a second,  *)
(* so that the conversion to whole seconds (Duration.Seconds truncated to  *)
(* int64) is not the identity.  A nil pointer is the empty sequence <<>>,  *)
(* a non-nil pointer the one-element sequence holding the value.           *)
(***************************************************************************)
EXTENDS Integers, Sequences, FiniteSets, TLC

VARIABLES
    slots,          \* table time_slots: id -> row
    lastId,         \* AUTOINCREMENT sequence of time_slots
    activeSlot,     \* Timer.activeSlot (*models.TimeSlot)
    isRunning,      \* Timer.isRunning
    startTime,      \* Timer.startTime
    notifyChannel,  \* Timer.notifyChannel (chan bool, capacity 1)
    alive,          \* the process is up (NewApp succeeded)
    edits,          \* manual edits made so far
    now,            \* the wall clock
    ret,            \* the last call and what it returned
    mu,             \* Timer.mu: 0 when free, else the caller holding it
    pc,             \* where each caller stands inside Timer.Start / Timer.Stop
    loc,            \* each caller's arguments and local variables
    lastNotifyTime, \* NotificationManager.lastNotifyTime
    notifier,       \* monitorLongSessions: its position, its ticker, its locals
    tray,           \* SystrayManager: isRunning, the icon and title shown, its position
    alert           \* the alerts sent so far: how many, the last one's instant and task

vars == <<slots, lastId, activeSlot, isRunning, startTime, notifyChannel, alive, edits, now, ret,
          mu, pc, loc, lastNotifyTime, notifier, tray, alert>>

timerVars == <<activeSlot, isRunning, startTime, notifyChannel>>
storeVars == <<slots, lastId>>
callVars == <<mu, pc, loc>>
monitorVars == <<lastNotifyTime, notifier, tray, alert>>

----------------------------------------------------------------------------
(* Bounds of the model *)

MaxId == 2          \* rows ever inserted
MaxTime == 4        \* last clock tick
MaxAdvance == 1     \* ticks the clock may advance inside one call
MaxEdits == 1       \* manual edits (update, delete) in one run
MaxCallers == 2     \* goroutines calling Start and Stop at the same time

(* Program constants, scaled to the tick *)

TicksPerSecond == 2 \* time.Duration.Seconds(): ticks in one second
TicksPerDay == 4    \* 24 * time.Hour
PollInterval == 1   \* time.NewTicker(5 * time.Minute)
NotifyInterval == 2 \* notifyInterval: 2 * time.Hour, a whole number of seconds

NULL == -1          \* SQL NULL / sql.NullTime{Valid: false} / nil *time.Time
ZeroTime == 0       \* time.Time{}
ChanCap == 1        \* make(chan bool, 1)
EmptyStr == -1      \* the string "" given for endTimeStr
Malformed == -2     \* a string time.Parse(time.RFC3339, ...) rejects

TaskNames == {"A", "B"}
Times == 1..MaxTime
Ids == 1..MaxId
Dates == 0..(MaxTime \div TicksPerDay)
Callers == 1..MaxCallers

----------------------------------------------------------------------------
(* models.TimeSlot *)

\* int64(d.Seconds()): a duration in ticks to whole seconds, truncated
\* toward zero
Seconds(d) ==
    IF d >= 0 THEN d \div TicksPerSecond ELSE -((-d) \div TicksPerSecond)

\* endTime.Sub(startTime)
Sub(endTime, st) == endTime - st

\* TimeSlot.IsActive
IsActive(ts) == ts.EndTime = NULL

\* a row of time_slots scanned into a models.TimeSlot
Scan(id, row) ==
    [ID |-> id, TaskName |-> row.task_name, StartTime |-> row.start_time,
     EndTime |-> row.end_time, DurationSeconds |-> row.duration_seconds]

----------------------------------------------------------------------------
(* Database: every operation is given the table, and `fail` says whether   *)
(* the storage engine fails the statement.  The result holds the error     *)
(* flag, the table afterwards and what the operation returns.              *)

\* CreateTimeSlot on a table without AUTOINCREMENT: the id is one more than
\* the greatest id stored
CreateTimeSlotRowid(db, seq, taskName, st, fail) ==
    IF fail
    THEN [err |-> TRUE, db |-> db, seq |-> seq, slot |-> <<>>]
    ELSE LET id == IF DOMAIN db = {} THEN 1
                   ELSE (CHOOSE m \in DOMAIN db : \A j \in DOMAIN db : j <= m) + 1
         IN [err |-> FALSE,
             db |-> [i \in DOMAIN db \cup {id} |->
                        IF i = id
                        THEN [task_name |-> taskName, start_time |-> st,
                              end_time |-> NULL, duration_seconds |-> 0]
                        ELSE db[i]],
             seq |-> id,
             slot |-> <<[ID |-> id, TaskName |-> taskName, StartTime |-> st,
                         EndTime |-> NULL, DurationSeconds |-> 0]>>]

\* Database.CreateTimeSlot
CreateTimeSlot(db, seq, taskName, st, fail) ==
    IF fail
    THEN [err |-> TRUE, db |-> db, seq |-> seq, slot |-> <<>>]
    ELSE LET id == seq + 1
         IN [err |-> FALSE,
             db |-> [i \in DOMAIN db \cup {id} |->
                        IF i = id
                        THEN [task_name |-> taskName, start_time |-> st,
                              end_time |-> NULL, duration_seconds |-> 0]
                        ELSE db[i]],
             seq |-> id,
             slot |-> <<[ID |-> id, TaskName |-> taskName, StartTime |-> st,
                         EndTime |-> NULL, DurationSeconds |-> 0]>>]

\* StopTimeSlot with its UPDATE statement lost: success, nothing written
StopTimeSlotNoWrite(db, id, endTime, fail) ==
    IF id \notin DOMAIN db \/ fail
    THEN [err |-> TRUE, db |-> db]
    ELSE [err |-> FALSE, db |-> db]

\* StopTimeSlot writing an end_time one tick after the instant given
StopTimeSlotLate(db, id, endTime, fail) ==
    IF id \notin DOMAIN db \/ fail
    THEN [err |-> TRUE, db |-> db]
    ELSE LET durationSeconds == Seconds(Sub(endTime + 1, db[id].start_time))
         IN [err |-> FALSE,
             db |-> [db EXCEPT ![id].end_time = endTime + 1,
                               ![id].duration_seconds = durationSeconds]]

\* StopTimeSlot storing the whole duration in ticks for duration_seconds
StopTimeSlotTicks(db, id, endTime, fail) ==
    IF id \notin DOMAIN db \/ fail
    THEN [err |-> TRUE, db |-> db]
    ELSE [err |-> FALSE,
          db |-> [db EXCEPT ![id].end_time = endTime,
                            ![id].duration_seconds = Sub(endTime, db[id].start_time)]]

\* Database.StopTimeSlot
StopTimeSlot(db, id, endTime, fail) ==
    IF id \notin DOMAIN db \/ fail
    THEN [err |-> TRUE, db |-> db]
    ELSE LET durationSeconds == Seconds(Sub(endTime, db[id].start_time))
         IN [err |-> FALSE,
             db |-> [db EXCEPT ![id].end_time = endTime,
                               ![id].duration_seconds = durationSeconds]]

\* GetActiveTimeSlot without WHERE end_time IS NULL
GetActiveTimeSlotAnyRow(db) ==
    {Scan(id, db[id]) : id \in
        {i \in DOMAIN db :
            \A j \in DOMAIN db : db[j].start_time <= db[i].start_time}}

\* GetActiveTimeSlot with ORDER BY start_time ASC
GetActiveTimeSlotOldest(db) ==
    {Scan(id, db[id]) : id \in
        {i \in DOMAIN db :
            /\ db[i].end_time = NULL
            /\ \A j \in DOMAIN db :
                  db[j].end_time = NULL => db[i].start_time <= db[j].start_time}}

\* Database.GetActiveTimeSlot: the rows the query may return (ORDER BY
\* start_time DESC LIMIT 1 leaves the choice among equal start times open)
GetActiveTimeSlot(db) ==
    {Scan(id, db[id]) : id \in
        {i \in DOMAIN db :
            /\ db[i].end_time = NULL
            /\ \A j \in DOMAIN db :
                  db[j].end_time = NULL => db[j].start_time <= db[i].start_time}}

\* UpdateTimeSlot leaving duration_seconds as it was stored
UpdateTimeSlotKeepDuration(db, id, taskName, st, endTime, fail) ==
    IF fail
    THEN [err |-> TRUE, db |-> db]
    ELSE [err |-> FALSE,
          db |-> [i \in DOMAIN db |->
                     IF i = id
                     THEN [task_name |-> taskName, start_time |-> st,
                           end_time |-> endTime,
                           duration_seconds |-> db[i].duration_seconds]
                     ELSE db[i]]]

\* Database.UpdateTimeSlot
UpdateTimeSlot(db, id, taskName, st, endTime, fail) ==
    LET durationSeconds == IF endTime # NULL THEN Seconds(Sub(endTime, st)) ELSE 0
    IN  IF fail
        THEN [err |-> TRUE, db |-> db]
        ELSE [err |-> FALSE,
              db |-> [i \in DOMAIN db |->
                         IF i = id
                         THEN [task_name |-> taskName, start_time |-> st,
                               end_time |-> endTime,
                               duration_seconds |-> durationSeconds]
                         ELSE db[i]]]

\* Database.DeleteTimeSlot
DeleteTimeSlot(db, id, fail) ==
    IF fail
    THEN [err |-> TRUE, db |-> db]
    ELSE [err |-> FALSE, db |-> [i \in DOMAIN db \ {id} |-> db[i]]]

\* startOfDay and endOfDay of GetTimeSlotsByDate and GetTaskStatistics
StartOfDay(date) == date * TicksPerDay
EndOfDay(date) == StartOfDay(date) + TicksPerDay

\* Database.GetTimeSlotsByDate: the listings the query may return (rows of
\* equal start_time come in either order)
GetTimeSlotsByDate(db, date) ==
    LET rows == {i \in DOMAIN db :
                    /\ db[i].start_time >= StartOfDay(date)
                    /\ db[i].start_time < EndOfDay(date)}
        n == Cardinality(rows)
    IN  {[k \in 1..n |-> Scan(f[k], db[f[k]])] :
            f \in {g \in [1..n -> rows] :
                      /\ \A a, b \in 1..n : a # b => g[a] # g[b]
                      /\ \A a, b \in 1..n :
                            a < b => db[g[a]].start_time <= db[g[b]].start_time}}

\* SUM(duration_seconds) over the rows `ids`
RECURSIVE SumDuration(_, _)
SumDuration(db, ids) ==
    IF ids = {} THEN 0
    ELSE LET i == CHOOSE x \in ids : TRUE
         IN  db[i].duration_seconds + SumDuration(db, ids \ {i})

\* GetTaskStatistics without "AND end_time IS NOT NULL"
GetTaskStatisticsAllRows(db, date) ==
    LET rows == {i \in DOMAIN db :
                    /\ db[i].start_time >= StartOfDay(date)
                    /\ db[i].start_time < EndOfDay(date)}
        groups == {db[i].task_name : i \in rows}
    IN  [taskName \in groups |->
            SumDuration(db, {i \in rows : db[i].task_name = taskName})]

\* GetTaskStatistics with the day closed at its end: start_time <= endOfDay
GetTaskStatisticsClosedDay(db, date) ==
    LET rows == {i \in DOMAIN db :
                    /\ db[i].start_time >= StartOfDay(date)
                    /\ db[i].start_time <= EndOfDay(date)
                    /\ db[i].end_time # NULL}
        groups == {db[i].task_name : i \in rows}
    IN  [taskName \in groups |->
            SumDuration(db, {i \in rows : db[i].task_name = taskName})]

\* Database.GetTaskStatistics
GetTaskStatistics(db, date) ==
    LET rows == {i \in DOMAIN db :
                    /\ db[i].start_time >= StartOfDay(date)
                    /\ db[i].start_time < EndOfDay(date)
                    /\ db[i].end_time # NULL}
        groups == {db[i].task_name : i \in rows}
    IN  [taskName \in groups |->
            SumDuration(db, {i \in rows : db[i].task_name = taskName})]

----------------------------------------------------------------------------
(* Timer *)

\* A send that queues every value, as on a channel without a capacity
NotifyQueues(ch, v) == Append(ch, v)

\* The non-blocking send of Start and Stop on notifyChannel
Notify(ch, v) == IF Len(ch) < ChanCap THEN Append(ch, v) ELSE ch

\* GetElapsedTime reading the start instant from the stored record
GetElapsedTimeFromStore(t) ==
    IF ~isRunning \/ activeSlot = <<>> THEN 0
    ELSE IF activeSlot[1].ID \in DOMAIN slots
         THEN t - slots[activeSlot[1].ID].start_time
         ELSE 0

\* Timer.GetElapsedTime at the instant t
GetElapsedTime(t) ==
    IF ~isRunning \/ activeSlot = <<>> THEN 0 ELSE t - startTime

\* Timer.Start.  d: the ticks between its two readings of time.Now().
Start(taskName, d, failStop, failCreate) ==
    LET implicit == activeSlot # <<>> /\ IsActive(activeSlot[1])
        stopped == IF implicit
                   THEN StopTimeSlot(slots, activeSlot[1].ID, now, failStop)
                   ELSE [err |-> FALSE, db |-> slots]
        now2 == now + d
        created == CreateTimeSlot(stopped.db, lastId, taskName, now2, failCreate)
    IN  IF stopped.err
        THEN /\ ret' = [op |-> "Start", err |-> TRUE, slot |-> <<>>,
                        prev |-> activeSlot, stopFailed |-> TRUE]
             /\ UNCHANGED <<slots, lastId, timerVars, now>>
        ELSE /\ now' = now2
             /\ slots' = created.db
             /\ lastId' = created.seq
             /\ IF created.err
                THEN /\ ret' = [op |-> "Start", err |-> TRUE, slot |-> <<>>,
                                prev |-> activeSlot, stopFailed |-> FALSE]
                     /\ UNCHANGED timerVars
                ELSE /\ activeSlot' = created.slot
                     /\ isRunning' = TRUE
                     /\ startTime' = now2
                     /\ notifyChannel' = Notify(notifyChannel, TRUE)
                     /\ ret' = [op |-> "Start", err |-> FALSE, slot |-> created.slot,
                                prev |-> activeSlot, stopFailed |-> FALSE]

\* Stop without its early return: an idle timer is "stopped" and notified
StopNoGuard(fail) ==
    IF activeSlot = <<>> \/ ~IsActive(activeSlot[1])
    THEN /\ activeSlot' = <<>>
         /\ isRunning' = FALSE
         /\ notifyChannel' = Notify(notifyChannel, FALSE)
         /\ ret' = [op |-> "Stop", err |-> FALSE, slot |-> activeSlot, idle |-> TRUE]
         /\ UNCHANGED <<storeVars, startTime>>
    ELSE LET stopped == StopTimeSlot(slots, activeSlot[1].ID, now, fail)
         IN  IF stopped.err
             THEN /\ ret' = [op |-> "Stop", err |-> TRUE, slot |-> <<>>, idle |-> FALSE]
                  /\ UNCHANGED <<storeVars, timerVars>>
             ELSE /\ slots' = stopped.db
                  /\ activeSlot' = <<>>
                  /\ isRunning' = FALSE
                  /\ notifyChannel' = Notify(notifyChannel, FALSE)
                  /\ ret' = [op |-> "Stop", err |-> FALSE, slot |-> activeSlot, idle |-> FALSE]
                  /\ UNCHANGED <<lastId, startTime>>

\* Timer.Stop
Stop(fail) ==
    IF activeSlot = <<>> \/ ~IsActive(activeSlot[1])
    THEN /\ ret' = [op |-> "Stop", err |-> FALSE, slot |-> <<>>, idle |-> TRUE]
         /\ UNCHANGED <<storeVars, timerVars>>
    ELSE LET stopped == StopTimeSlot(slots, activeSlot[1].ID, now, fail)
         IN  IF stopped.err
             THEN /\ ret' = [op |-> "Stop", err |-> TRUE, slot |-> <<>>, idle |-> FALSE]
                  /\ UNCHANGED <<storeVars, timerVars>>
             ELSE /\ slots' = stopped.db
                  /\ activeSlot' = <<>>
                  /\ isRunning' = FALSE
                  /\ notifyChannel' = Notify(notifyChannel, FALSE)
                  /\ ret' = [op |-> "Stop", err |-> FALSE, slot |-> activeSlot, idle |-> FALSE]
                  /\ UNCHANGED <<lastId, startTime>>

----------------------------------------------------------------------------
(* App: the operations bound to the presentation layer *)

\* App.StartTimer
StartTimer ==
    /\ alive
    /\ lastId < MaxId
    /\ \E taskName \in TaskNames \cup {""}, d \in 0..MaxAdvance,
          failStop \in BOOLEAN, failCreate \in BOOLEAN :
          /\ now + d <= MaxTime
          /\ IF taskName = ""
             THEN /\ ret' = [op |-> "StartTimer", err |-> FALSE, slot |-> <<>>]
                  /\ UNCHANGED <<storeVars, timerVars, now>>
             ELSE Start(taskName, d, failStop, failCreate)
    /\ UNCHANGED <<alive, edits, callVars, monitorVars>>

\* App.StopTimer
StopTimer ==
    /\ alive
    /\ \E fail \in BOOLEAN : Stop(fail)
    /\ UNCHANGED <<alive, edits, now, callVars, monitorVars>>

\* time.Parse(time.RFC3339, s)
ParseRFC3339(s) ==
    IF s = Malformed \/ s = EmptyStr THEN [err |-> TRUE, t |-> ZeroTime]
    ELSE [err |-> FALSE, t |-> s]

\* App.UpdateTimeSlot
AppUpdateTimeSlot(id, taskName, startTimeStr, endTimeStr, fail) ==
    LET st == ParseRFC3339(startTimeStr)
        et == ParseRFC3339(endTimeStr)
        endTime == IF endTimeStr # EmptyStr THEN et.t ELSE NULL
        updated == UpdateTimeSlot(slots, id, taskName, st.t, endTime, fail)
        args == [id |-> id, taskName |-> taskName, startTime |-> startTimeStr,
                 endTime |-> endTimeStr]
    IN  IF st.err \/ (endTimeStr # EmptyStr /\ et.err)
        THEN /\ ret' = [op |-> "UpdateTimeSlot", err |-> TRUE, parse |-> TRUE,
                        args |-> args]
             /\ UNCHANGED slots
        ELSE /\ slots' = updated.db
             /\ ret' = [op |-> "UpdateTimeSlot", err |-> updated.err,
                        parse |-> FALSE, args |-> args]

TimeStrs == Times \cup {Malformed}

\* The update operation as the presentation layer may call it
UpdateTimeSlotCall ==
    /\ alive
    /\ edits < MaxEdits
    /\ edits' = edits + 1
    /\ \E id \in Ids, taskName \in TaskNames \cup {""},
          startTimeStr \in TimeStrs, endTimeStr \in TimeStrs \cup {EmptyStr},
          fail \in BOOLEAN :
          AppUpdateTimeSlot(id, taskName, startTimeStr, endTimeStr, fail)
    /\ UNCHANGED <<lastId, timerVars, alive, now, callVars, monitorVars>>

\* EditTimeSlotModal.handleSave: the form's checks, then the update
handleSave ==
    /\ alive
    /\ edits < MaxEdits
    /\ edits' = edits + 1
    /\ \E id \in DOMAIN slots, taskName \in TaskNames \cup {""},
          st \in Times, end \in Times \cup {EmptyStr}, fail \in BOOLEAN :
          IF taskName = "" \/ (end # EmptyStr /\ end <= st)
          THEN /\ ret' = [op |-> "handleSave", err |-> TRUE,
                          args |-> [id |-> id, taskName |-> taskName,
                                    startTime |-> st, endTime |-> end]]
               /\ UNCHANGED slots
          ELSE AppUpdateTimeSlot(id, taskName, st, end, fail)
    /\ UNCHANGED <<lastId, timerVars, alive, now, callVars, monitorVars>>

\* App.DeleteTimeSlot
DeleteTimeSlotCall ==
    /\ alive
    /\ edits < MaxEdits
    /\ edits' = edits + 1
    /\ \E id \in Ids, fail \in BOOLEAN :
          LET deleted == DeleteTimeSlot(slots, id, fail)
          IN  /\ slots' = deleted.db
              /\ ret' = [op |-> "DeleteTimeSlot", err |-> deleted.err, id |-> id]
    /\ UNCHANGED <<lastId, timerVars, alive, now, callVars, monitorVars>>

\* LoadActiveSlot taking the instant of the restart for the start instant
LoadActiveSlotFromNow(fail) ==
    IF fail
    THEN /\ alive' = FALSE
         /\ activeSlot' = <<>>
         /\ isRunning' = FALSE
         /\ startTime' = ZeroTime
         /\ ret' = [op |-> "NewApp", err |-> TRUE]
    ELSE /\ alive' = TRUE
         /\ ret' = [op |-> "NewApp", err |-> FALSE]
         /\ IF GetActiveTimeSlot(slots) # {}
            THEN \E slot \in GetActiveTimeSlot(slots) :
                    /\ activeSlot' = <<slot>>
                    /\ isRunning' = TRUE
                    /\ startTime' = now
            ELSE /\ activeSlot' = <<>>
                 /\ isRunning' = FALSE
                 /\ startTime' = ZeroTime

\* Timer.LoadActiveSlot on the Timer NewTimer made
LoadActiveSlot(fail) ==
    IF fail
    THEN /\ alive' = FALSE
         /\ activeSlot' = <<>>
         /\ isRunning' = FALSE
         /\ startTime' = ZeroTime
         /\ ret' = [op |-> "NewApp", err |-> TRUE]
    ELSE /\ alive' = TRUE
         /\ ret' = [op |-> "NewApp", err |-> FALSE]
         /\ IF GetActiveTimeSlot(slots) # {}
            THEN \E slot \in GetActiveTimeSlot(slots) :
                    /\ activeSlot' = <<slot>>
                    /\ isRunning' = TRUE
                    /\ startTime' = slot.StartTime
            ELSE /\ activeSlot' = <<>>
                 /\ isRunning' = FALSE
                 /\ startTime' = ZeroTime

\* A caller outside Timer.Start and Timer.Stop: no arguments, no locals
NoLocals ==
    [op |-> "", taskName |-> "", id |-> 0, endTime |-> ZeroTime, startTime |-> ZeroTime]

\* monitorLongSessions as it is started at the instant t: waiting for the
\* first tick of its ticker
NewNotifier(t) == [pc |-> "wait", nextTick |-> t + PollInterval, elapsed |-> 0]

\* NewSystrayManager and onReady: the inactive icon, "Timer: Stopped"
NewSystrayManager ==
    [isRunning |-> FALSE, icon |-> "inactive",
     title |-> [kind |-> "Stopped", task |-> "", elapsed |-> 0],
     pc |-> "wait", changed |-> FALSE, task |-> ""]

\* The process ends and is started again: NewApp (main), then App.Startup
\* with fresh monitors; no goroutine of the old process is left
NewApp ==
    /\ notifyChannel' = <<>>
    /\ \E fail \in BOOLEAN : LoadActiveSlot(fail)
    /\ mu' = 0
    /\ pc' = [c \in Callers |-> "idle"]
    /\ loc' = [c \in Callers |-> NoLocals]
    /\ lastNotifyTime' = ZeroTime
    /\ notifier' = NewNotifier(now)
    /\ tray' = NewSystrayManager
    /\ UNCHANGED <<storeVars, edits, now, alert>>

\* The clock advances between calls
Tick ==
    /\ now < MaxTime
    /\ now' = now + 1
    /\ UNCHANGED <<storeVars, timerVars, alive, edits, ret, callVars, monitorVars>>

----------------------------------------------------------------------------
(* Timer.Start and Timer.Stop statement by statement, for callers that run *)
(* at the same time (each bound call runs on a goroutine of its own).      *)
(* pc[c] is "idle" outside a call, "lockStart" / "lockStop" before         *)
(* t.mu.Lock(), then "select" and "update" (the two statements of          *)
(* Database.StopTimeSlot) and "create" (Database.CreateTimeSlot).          *)

\* t.mu.Lock() going on without waiting for the holder
LockNoWait(c) == TRUE

\* t.mu.Lock(): the caller goes on only when no one holds the mutex
Lock(c) == mu = 0

\* return from Start or Stop with the deferred t.mu.Unlock()
Return(c, r) ==
    /\ ret' = r
    /\ pc' = [pc EXCEPT ![c] = "idle"]
    /\ loc' = [loc EXCEPT ![c] = NoLocals]
    /\ mu' = 0

\* App.StartTimer with a task name, up to Timer.Start's t.mu.Lock()
StartCall(c) ==
    /\ alive
    /\ pc[c] = "idle"
    /\ lastId < MaxId
    /\ \E taskName \in TaskNames :
          /\ pc' = [pc EXCEPT ![c] = "lockStart"]
          /\ loc' = [loc EXCEPT ![c] = [NoLocals EXCEPT !.op = "Start",
                                                        !.taskName = taskName]]
    /\ UNCHANGED <<storeVars, timerVars, alive, edits, now, ret, mu, monitorVars>>

\* App.StopTimer, up to Timer.Stop's t.mu.Lock()
StopCall(c) ==
    /\ alive
    /\ pc[c] = "idle"
    /\ pc' = [pc EXCEPT ![c] = "lockStop"]
    /\ loc' = [loc EXCEPT ![c] = [NoLocals EXCEPT !.op = "Stop"]]
    /\ UNCHANGED <<storeVars, timerVars, alive, edits, now, ret, mu, monitorVars>>

\* Timer.Start: the mutex taken, the test of t.activeSlot, time.Now() for
\* the implicit stop
StartLock(c) ==
    /\ pc[c] = "lockStart"
    /\ Lock(c)
    /\ mu' = c
    /\ IF activeSlot # <<>> /\ IsActive(activeSlot[1])
       THEN /\ pc' = [pc EXCEPT ![c] = "select"]
            /\ loc' = [loc EXCEPT ![c].id = activeSlot[1].ID, ![c].endTime = now]
       ELSE /\ pc' = [pc EXCEPT ![c] = "create"]
            /\ loc' = loc
    /\ UNCHANGED <<storeVars, timerVars, alive, edits, now, ret, monitorVars>>

\* Timer.Stop: the mutex taken, the early return of an idle timer, else
\* time.Now() for the stop
StopLock(c) ==
    /\ pc[c] = "lockStop"
    /\ Lock(c)
    /\ IF activeSlot = <<>> \/ ~IsActive(activeSlot[1])
       THEN Return(c, [op |-> "Stop", err |-> FALSE, slot |-> <<>>, idle |-> TRUE])
       ELSE /\ mu' = c
            /\ pc' = [pc EXCEPT ![c] = "select"]
            /\ loc' = [loc EXCEPT ![c].id = activeSlot[1].ID, ![c].endTime = now]
            /\ ret' = ret
    /\ UNCHANGED <<storeVars, timerVars, alive, edits, now, monitorVars>>

\* What Start and Stop return when StopTimeSlot gave an error
StopTimeSlotFailed(c) ==
    IF loc[c].op = "Start"
    THEN [op |-> "Start", err |-> TRUE, slot |-> <<>>, prev |-> activeSlot,
          stopFailed |-> TRUE]
    ELSE [op |-> "Stop", err |-> TRUE, slot |-> <<>>, idle |-> FALSE]

\* Database.StopTimeSlot, first statement: SELECT start_time ... WHERE id = ?
StopSelect(c) ==
    /\ pc[c] = "select"
    /\ \E fail \in BOOLEAN :
          IF loc[c].id \notin DOMAIN slots \/ fail
          THEN Return(c, StopTimeSlotFailed(c))
          ELSE /\ loc' = [loc EXCEPT ![c].startTime = slots[loc[c].id].start_time]
               /\ pc' = [pc EXCEPT ![c] = "update"]
               /\ UNCHANGED <<ret, mu>>
    /\ UNCHANGED <<storeVars, timerVars, alive, edits, now, monitorVars>>

\* Database.StopTimeSlot, second statement: UPDATE ... SET end_time,
\* duration_seconds WHERE id = ?, the duration from the start_time selected;
\* then Stop's assignments and return, or Start going on to the create
StopUpdate(c) ==
    /\ pc[c] = "update"
    /\ \E fail \in BOOLEAN :
          IF fail
          THEN /\ Return(c, StopTimeSlotFailed(c))
               /\ UNCHANGED <<storeVars, timerVars>>
          ELSE /\ slots' = [i \in DOMAIN slots |->
                              IF i = loc[c].id
                              THEN [slots[i] EXCEPT
                                      !.end_time = loc[c].endTime,
                                      !.duration_seconds =
                                          Seconds(Sub(loc[c].endTime, loc[c].startTime))]
                              ELSE slots[i]]
               /\ lastId' = lastId
               /\ IF loc[c].op = "Stop"
                  THEN /\ activeSlot' = <<>>
                       /\ isRunning' = FALSE
                       /\ notifyChannel' = Notify(notifyChannel, FALSE)
                       /\ startTime' = startTime
                       /\ Return(c, [op |-> "Stop", err |-> FALSE, slot |-> activeSlot,
                                     idle |-> FALSE])
                  ELSE /\ pc' = [pc EXCEPT ![c] = "create"]
                       /\ UNCHANGED <<timerVars, ret, mu, loc>>
    /\ UNCHANGED <<alive, edits, now, monitorVars>>

\* Timer.Start from now := time.Now(): Database.CreateTimeSlot, the
\* assignments to the Timer, the notification, the return
StartCreate(c) ==
    /\ pc[c] = "create"
    /\ \E fail \in BOOLEAN :
          LET created == CreateTimeSlot(slots, lastId, loc[c].taskName, now, fail)
          IN  /\ slots' = created.db
              /\ lastId' = created.seq
              /\ IF created.err
                 THEN /\ Return(c, [op |-> "Start", err |-> TRUE, slot |-> <<>>,
                                    prev |-> activeSlot, stopFailed |-> FALSE])
                      /\ UNCHANGED timerVars
                 ELSE /\ activeSlot' = created.slot
                      /\ isRunning' = TRUE
                      /\ startTime' = now
                      /\ notifyChannel' = Notify(notifyChannel, TRUE)
                      /\ Return(c, [op |-> "Start", err |-> FALSE, slot |-> created.slot,
                                    prev |-> activeSlot, stopFailed |-> FALSE])
    /\ UNCHANGED <<alive, edits, now, monitorVars>>

\* One statement of the caller c
Caller(c) ==
    \/ StartCall(c)
    \/ StopCall(c)
    \/ StartLock(c)
    \/ StopLock(c)
    \/ StopSelect(c)
    \/ StopUpdate(c)
    \/ StartCreate(c)

----------------------------------------------------------------------------
(* The monitors: each poll reads the Timer through the App's getters, one  *)
(* read lock at a time, so calls of start and stop may come between the    *)
(* reads of one poll.                                                      *)

\* t.mu.RLock(): a getter reads when no caller holds the mutex
RLock == mu = 0

\* App.IsTimerRunning
IsTimerRunning == isRunning

\* App.GetActiveTimeSlot
AppGetActiveTimeSlot == activeSlot

\* App.GetElapsedTime: int64(Timer.GetElapsedTime().Seconds())
AppGetElapsedTime == Seconds(GetElapsedTime(now))

\* time.Since(t): from the zero Time it is the largest Duration
TimeSince(t) == IF t = ZeroTime THEN MaxTime + NotifyInterval ELSE now - t

\* The ticker after a tick was taken at `now`: the ticks that came while
\* no one received were dropped, the next is the first one after `now`
NextTick(tick) == tick + PollInterval * (((now - tick) \div PollInterval) + 1)

\* monitorLongSessions, case <-ticker.C: if n.app.IsTimerRunning()
PollRunning ==
    /\ alive
    /\ notifier.pc = "wait"
    /\ now >= notifier.nextTick
    /\ RLock
    /\ notifier' = [notifier EXCEPT
                      !.pc = IF IsTimerRunning THEN "elapsed" ELSE "wait",
                      !.nextTick = NextTick(notifier.nextTick)]
    /\ UNCHANGED <<storeVars, timerVars, alive, edits, now, ret, callVars,
                   lastNotifyTime, tray, alert>>

\* monitorLongSessions: elapsed := n.app.GetElapsedTime() and the two tests
\* against notifyInterval
PollElapsed ==
    /\ alive
    /\ notifier.pc = "elapsed"
    /\ RLock
    /\ LET elapsed == AppGetElapsedTime
           elapsedDuration == elapsed * TicksPerSecond
       IN  IF elapsedDuration >= NotifyInterval
              /\ TimeSince(lastNotifyTime) >= NotifyInterval
           THEN notifier' = [notifier EXCEPT !.pc = "slot", !.elapsed = elapsed]
           ELSE notifier' = [notifier EXCEPT !.pc = "wait"]
    /\ UNCHANGED <<storeVars, timerVars, alive, edits, now, ret, callVars,
                   lastNotifyTime, tray, alert>>

\* monitorLongSessions: activeSlot := n.app.GetActiveTimeSlot(), then
\* SendNotification and n.lastNotifyTime = time.Now()
PollSlot ==
    /\ alive
    /\ notifier.pc = "slot"
    /\ RLock
    /\ IF AppGetActiveTimeSlot # <<>>
       THEN /\ alert' = [n |-> alert.n + 1, at |-> now,
                         task |-> AppGetActiveTimeSlot[1].TaskName]
            /\ lastNotifyTime' = now
       ELSE UNCHANGED <<alert, lastNotifyTime>>
    /\ notifier' = [notifier EXCEPT !.pc = "wait", !.elapsed = 0]
    /\ UNCHANGED <<storeVars, timerVars, alive, edits, now, ret, callVars, tray>>

\* updateStatus writing the flag it read into the Timer as well
UpdateStatusWritesTimer ==
    /\ alive
    /\ tray.pc = "wait"
    /\ RLock
    /\ isRunning' = ~tray.isRunning
    /\ tray' = [tray EXCEPT !.isRunning = ~tray.isRunning]
    /\ UNCHANGED <<storeVars, activeSlot, startTime, notifyChannel, alive, edits,
                   now, ret, callVars, lastNotifyTime, notifier, alert>>

\* updateStatus recording the flag and never setting the icon
UpdateStatusKeepsIcon ==
    /\ alive
    /\ tray.pc = "wait"
    /\ RLock
    /\ LET running == IsTimerRunning
           wasRunning == tray.isRunning
       IN  tray' = [tray EXCEPT
                      !.isRunning = running,
                      !.changed = wasRunning # running,
                      !.title = IF wasRunning # running /\ ~running
                                THEN [kind |-> "Stopped", task |-> "", elapsed |-> 0]
                                ELSE @,
                      !.pc = IF running THEN "slot" ELSE "wait"]
    /\ UNCHANGED <<storeVars, timerVars, alive, edits, now, ret, callVars,
                   lastNotifyTime, notifier, alert>>

\* SystrayManager.updateStatus (any time: its one-second ticker is left
\* out), up to the icon: isRunning := s.app.IsTimerRunning(), s.isRunning,
\* systray.SetIcon and "Timer: Stopped"
UpdateStatus ==
    /\ alive
    /\ tray.pc = "wait"
    /\ RLock
    /\ LET running == IsTimerRunning
           wasRunning == tray.isRunning
       IN  tray' = [tray EXCEPT
                      !.isRunning = running,
                      !.changed = wasRunning # running,
                      !.icon = IF wasRunning # running
                               THEN (IF running THEN "active" ELSE "inactive")
                               ELSE @,
                      !.title = IF wasRunning # running /\ ~running
                                THEN [kind |-> "Stopped", task |-> "", elapsed |-> 0]
                                ELSE @,
                      !.pc = IF running THEN "slot" ELSE "wait"]
    /\ UNCHANGED <<storeVars, timerVars, alive, edits, now, ret, callVars,
                   lastNotifyTime, notifier, alert>>

\* updateStatus: activeSlot := s.app.GetActiveTimeSlot() in either branch,
\* and the title of the branch wasRunning != isRunning
UpdateStatusSlot ==
    /\ alive
    /\ tray.pc = "slot"
    /\ RLock
    /\ LET slot == AppGetActiveTimeSlot
       IN  IF tray.changed
           THEN tray' = [tray EXCEPT
                           !.title = IF slot # <<>>
                                     THEN [kind |-> "Running", task |-> slot[1].TaskName,
                                           elapsed |-> 0]
                                     ELSE [kind |-> "Running", task |-> "", elapsed |-> 0],
                           !.pc = "wait"]
           ELSE IF slot # <<>>
                THEN tray' = [tray EXCEPT !.task = slot[1].TaskName, !.pc = "elapsed"]
                ELSE tray' = [tray EXCEPT !.pc = "wait"]
    /\ UNCHANGED <<storeVars, timerVars, alive, edits, now, ret, callVars,
                   lastNotifyTime, notifier, alert>>

\* updateStatus: elapsed := s.app.GetElapsedTime() and the title with it
UpdateStatusElapsed ==
    /\ alive
    /\ tray.pc = "elapsed"
    /\ RLock
    /\ tray' = [tray EXCEPT
                  !.title = [kind |-> "Elapsed", task |-> tray.task,
                             elapsed |-> AppGetElapsedTime],
                  !.task = "",
                  !.pc = "wait"]
    /\ UNCHANGED <<storeVars, timerVars, alive, edits, now, ret, callVars,
                   lastNotifyTime, notifier, alert>>

\* A step of a poll of the long-session monitor
NotifierPoll == PollRunning \/ PollElapsed \/ PollSlot

\* A step of a poll of the tray monitor
TrayPoll == UpdateStatus \/ UpdateStatusSlot \/ UpdateStatusElapsed

----------------------------------------------------------------------------
Init ==
    /\ slots = <<>>
    /\ lastId = 0
    /\ activeSlot = <<>>
    /\ isRunning = FALSE
    /\ startTime = ZeroTime
    /\ notifyChannel = <<>>
    /\ alive = TRUE
    /\ edits = 0
    /\ now = 1
    /\ ret = [op |-> "NewApp", err |-> FALSE]
    /\ mu = 0
    /\ pc = [c \in Callers |-> "idle"]
    /\ loc = [c \in Callers |-> NoLocals]
    /\ lastNotifyTime = ZeroTime
    /\ notifier = NewNotifier(now)
    /\ tray = NewSystrayManager
    /\ alert = [n |-> 0, at |-> ZeroTime, task |-> ""]

NextTimer == StartTimer \/ StopTimer \/ Tick

SpecTimer == Init /\ [][NextTimer]_vars

NextRecover == StartTimer \/ StopTimer \/ NewApp \/ Tick

SpecRecover == Init /\ [][NextRecover]_vars

Next ==
    \/ StartTimer
    \/ StopTimer
    \/ UpdateTimeSlotCall
    \/ handleSave
    \/ DeleteTimeSlotCall
    \/ NewApp
    \/ Tick

Spec == Init /\ [][Next]_vars

\* Callers of start and stop running at the same time, and restarts
NextCallers ==
    \/ \E c \in Callers : Caller(c)
    \/ NewApp
    \/ Tick

SpecCallers == Init /\ [][NextCallers]_vars

\* A call that has been made goes on: the goroutine of a call runs its next
\* statement (the deferred Unlock included), and sync.Mutex hands the lock
\* to a caller that keeps waiting for it.  Nothing obliges the user to call.
InCall(c) ==
    \/ StopSelect(c)
    \/ StopUpdate(c)
    \/ StartCreate(c)

SpecCallersFair ==
    /\ SpecCallers
    /\ \A c \in Callers :
          /\ WF_vars(InCall(c))
          /\ SF_vars(StartLock(c) \/ StopLock(c))

\* The long-session monitor beside start, stop and restarts
NextNotifier ==
    \/ StartTimer
    \/ StopTimer
    \/ NewApp
    \/ Tick
    \/ PollRunning
    \/ PollElapsed
    \/ PollSlot

SpecNotifier == Init /\ [][NextNotifier]_vars

\* Both monitors beside start and stop
NextMonitors ==
    \/ StartTimer
    \/ StopTimer
    \/ Tick
    \/ PollRunning
    \/ PollElapsed
    \/ PollSlot
    \/ UpdateStatus
    \/ UpdateStatusSlot
    \/ UpdateStatusElapsed

SpecMonitors == Init /\ [][NextMonitors]_vars

\* One caller of start and stop, and manual updates between its statements
NextCallerEdits ==
    \/ Caller(1)
    \/ UpdateTimeSlotCall
    \/ Tick

SpecCallerEdits == Init /\ [][NextCallerEdits]_vars

----------------------------------------------------------------------------
(* The claims *)

\* The stored slots whose end_time is absent
ActiveIds == {i \in DOMAIN slots : slots[i].end_time = NULL}

\* n is the duration d (in ticks) in whole seconds
WholeSeconds(n, d) ==
    IF d >= 0
    THEN n >= 0 /\ n * TicksPerSecond <= d /\ d < (n + 1) * TicksPerSecond
    ELSE n <= 0 /\ (n - 1) * TicksPerSecond < d /\ d <= n * TicksPerSecond

\* C1: after any sequence of start and stop calls from an empty store, store
\* failures included, the store holds at most one slot without end_time.
C1_AtMostOneActive == Cardinality(ActiveIds) <= 1

\* C1: a start has closed one slot and opened the next
C1_Witness ==
    /\ ret.op = "Start" /\ ~ret.err /\ ret.prev # <<>>
    /\ Cardinality(DOMAIN slots) = 2
    /\ Cardinality(ActiveIds) = 1

\* C2: when start(A) succeeds while Running(B), the stored end_time of B is
\* the stored start_time of A, B's duration_seconds is end_time(B) -
\* start_time(B) in whole seconds, and A is the only active slot.
C2_ZeroGap ==
    (ret.op = "Start" /\ ~ret.err /\ ret.prev # <<>>) =>
        LET a == ret.slot[1].ID
            b == ret.prev[1].ID
        IN  /\ a \in DOMAIN slots /\ b \in DOMAIN slots
            /\ slots[b].end_time = slots[a].start_time
            /\ WholeSeconds(slots[b].duration_seconds,
                            slots[b].end_time - slots[b].start_time)
            /\ ActiveIds = {a}

\* C3: stop() on a Running timer returns the closed slot: its end_time is
\* the stop instant and its duration_seconds is end_time - start_time, the
\* values written to the store.
C3_StopReturnsClosedSlot ==
    (ret.op = "Stop" /\ ~ret.err /\ ~ret.idle) =>
        /\ ret.slot # <<>>
        /\ ret.slot[1].ID \in DOMAIN slots
        /\ ret.slot[1].EndTime # NULL
        /\ ret.slot[1].EndTime = slots[ret.slot[1].ID].end_time
        /\ ret.slot[1].DurationSeconds = slots[ret.slot[1].ID].duration_seconds
        /\ WholeSeconds(ret.slot[1].DurationSeconds,
                        ret.slot[1].EndTime - ret.slot[1].StartTime)

\* C4: stop() while the timer is Idle returns no slot and no error and
\* leaves the Timer State and every stored record unchanged.
C4_StopIdleNoChange ==
    [][(StopTimer /\ ~isRunning) =>
          /\ ret'.op = "Stop" /\ ret'.slot = <<>> /\ ~ret'.err
          /\ activeSlot' = activeSlot
          /\ isRunning' = isRunning
          /\ startTime' = startTime
          /\ notifyChannel' = notifyChannel
          /\ slots' = slots]_vars

\* C4: stop() was called on an idle timer over a store that holds records
C4_Witness ==
    /\ ret.op = "Stop" /\ ret.idle /\ ~isRunning
    /\ DOMAIN slots # {}

\* C5: after recover_from_store on process start the timer is Running
\* exactly when the store holds an active slot; it then references that slot
\* and elapsed() at instant t is t - the slot's persisted start_time; with no
\* active slot the timer is Idle (elapsed() is zero).
C5_Recover ==
    (ret.op = "NewApp" /\ ~ret.err) =>
        /\ isRunning <=> ActiveIds # {}
        /\ isRunning <=> activeSlot # <<>>
        /\ isRunning =>
              LET id == activeSlot[1].ID
              IN  /\ id \in ActiveIds
                  /\ activeSlot[1].TaskName = slots[id].task_name
                  /\ activeSlot[1].StartTime = slots[id].start_time
                  /\ activeSlot[1].EndTime = NULL
                  /\ \A t \in now..MaxTime :
                        GetElapsedTime(t) = t - slots[id].start_time
        /\ ~isRunning => \A t \in now..MaxTime : GetElapsedTime(t) = 0

\* C5: the process restarted over an active slot and time has passed since
\* the slot was started
C5_Witness ==
    /\ ret.op = "NewApp" /\ ~ret.err
    /\ isRunning
    /\ GetElapsedTime(now) >= TicksPerSecond

\* The update call of ret was given two well-formed instants, the end not
\* after the start
EndNotAfterStart(r) ==
    /\ r.op = "UpdateTimeSlot"
    /\ r.args.startTime \in Times
    /\ r.args.endTime \in Times
    /\ r.args.endTime <= r.args.startTime

\* C6: update(id, name, start, end) with end_time present and end_time <=
\* start_time fails with a validation error and leaves the stored record
\* unchanged.
C6_UpdateRejectsEndNotAfterStart ==
    [][(UpdateTimeSlotCall /\ EndNotAfterStart(ret')) =>
          (ret'.err /\ slots' = slots)]_vars

\* The day an instant falls in
DayOf(t) == t \div TicksPerDay

\* C7: after a successful update(id, name, s, e) on an existing slot, the
\* listing of the day of s holds the slot with task_name = name, start_time
\* = s, end_time = e and duration_seconds = e - s in whole seconds; with e
\* absent the slot reads back active with duration_seconds = 0.
C7_UpdateRoundTrip ==
    (ret.op = "UpdateTimeSlot" /\ ~ret.err /\ ret.args.id \in DOMAIN slots) =>
        LET a == ret.args
            listings == GetTimeSlotsByDate(slots, DayOf(a.startTime))
        IN  /\ listings # {}
            /\ \A list \in listings :
                  /\ Cardinality({k \in 1..Len(list) : list[k].ID = a.id}) = 1
                  /\ \A k \in 1..Len(list) :
                        list[k].ID = a.id =>
                           /\ list[k].TaskName = a.taskName
                           /\ list[k].StartTime = a.startTime
                           /\ IF a.endTime = EmptyStr
                              THEN /\ list[k].EndTime = NULL
                                   /\ list[k].DurationSeconds = 0
                              ELSE /\ list[k].EndTime = a.endTime
                                   /\ WholeSeconds(list[k].DurationSeconds,
                                                   a.endTime - a.startTime)

\* C7: an update closed an existing slot more than a second after its start
C7_Witness ==
    /\ ret.op = "UpdateTimeSlot" /\ ~ret.err
    /\ ret.args.id \in DOMAIN slots
    /\ ret.args.endTime \in Times
    /\ ret.args.endTime >= ret.args.startTime + TicksPerSecond
    /\ slots[ret.args.id].duration_seconds >= 1

\* The closed slots named taskName whose start_time lies in the day `date`
ClosedInDay(taskName, date) ==
    {i \in DOMAIN slots :
        /\ slots[i].task_name = taskName
        /\ slots[i].end_time # NULL
        /\ date * TicksPerDay <= slots[i].start_time
        /\ slots[i].start_time < (date + 1) * TicksPerDay}

\* The sum of duration_seconds over the slots of `ids` with id <= n
RECURSIVE TotalUpTo(_, _)
TotalUpTo(n, ids) ==
    IF n = 0 THEN 0
    ELSE (IF n \in ids THEN slots[n].duration_seconds ELSE 0) + TotalUpTo(n - 1, ids)

\* C8: for every date, aggregate_by_task(date) maps each task name to the
\* sum of duration_seconds over exactly the closed slots of that name whose
\* start_time lies in [date, date+1); a name with no such slot (only active
\* slots, or none) is absent from the mapping.
C8_AggregateByTask ==
    \A date \in Dates :
        LET stats == GetTaskStatistics(slots, date)
        IN  /\ DOMAIN stats = {n \in TaskNames \cup {""} : ClosedInDay(n, date) # {}}
            /\ \A n \in DOMAIN stats :
                  stats[n] = TotalUpTo(lastId, ClosedInDay(n, date))

\* C8: one day holds a closed slot that lasted a second or more and an
\* active slot of another task, which the statistics of the day leave out
C8_Witness ==
    \E date \in Dates, i \in DOMAIN slots, j \in DOMAIN slots :
        /\ slots[i].end_time # NULL /\ slots[i].duration_seconds >= 1
        /\ slots[j].end_time = NULL
        /\ slots[i].task_name # slots[j].task_name
        /\ DayOf(slots[i].start_time) = date /\ DayOf(slots[j].start_time) = date
        /\ slots[j].task_name \notin DOMAIN GetTaskStatistics(slots, date)
        /\ GetTaskStatistics(slots, date)[slots[i].task_name] >= 1

\* C9: in every state reachable by start, stop, recover, update and delete
\* calls, at most one stored slot has an absent end_time.
C9_AtMostOneActiveWithEdits ==
    \A i \in DOMAIN slots, j \in DOMAIN slots :
        (slots[i].end_time = NULL /\ slots[j].end_time = NULL) => i = j

\* C10: if the implicit stop inside start(A) fails while Running(B), start
\* returns the error, no slot is created, the Timer State still references B
\* as running with its start instant, and B is still active in the store.
C10_ImplicitStopFailure ==
    [][(StartTimer /\ ret'.op = "Start" /\ ret'.stopFailed) =>
          /\ ret'.err /\ ret'.slot = <<>>
          /\ slots' = slots /\ lastId' = lastId
          /\ activeSlot' = activeSlot /\ activeSlot # <<>>
          /\ isRunning' /\ isRunning
          /\ startTime' = startTime
          /\ activeSlot[1].ID \in DOMAIN slots'
          /\ slots'[activeSlot[1].ID].end_time = NULL]_vars

\* C11: whenever start(name) or stop() returns a storage error, the Timer
\* State and the stored records are exactly as before the call; a start(A)
\* while Running(B) whose slot creation fails leaves B active in the store.
C11_StorageErrorNoPartialWrite ==
    [][((StartTimer \/ StopTimer) /\ ret'.op \in {"Start", "Stop"} /\ ret'.err) =>
          /\ slots' = slots /\ lastId' = lastId
          /\ activeSlot' = activeSlot
          /\ isRunning' = isRunning
          /\ startTime' = startTime
          /\ notifyChannel' = notifyChannel]_vars

\* C13: update(id, ...) and delete(id) on an id that is not in the store
\* fail with an error and change no record.
C13_AbsentIdNotFound ==
    [][((UpdateTimeSlotCall /\ ~ret'.parse /\ ret'.args.id \notin DOMAIN slots)
          \/ (DeleteTimeSlotCall /\ ret'.id \notin DOMAIN slots)) =>
          (ret'.err /\ slots' = slots)]_vars

\* C14: starting the timer with an empty task name fails with an error,
\* creates no slot, closes no slot and leaves the Timer State unchanged; and
\* no stored slot has an empty task_name.
C14_EmptyTaskName ==
    [][/\ (StartTimer /\ ret'.op = "StartTimer") =>
             /\ ret'.err
             /\ slots' = slots /\ lastId' = lastId
             /\ activeSlot' = activeSlot
             /\ isRunning' = isRunning
             /\ startTime' = startTime
       /\ \A i \in DOMAIN slots' : slots'[i].task_name # ""]_vars

\* The sum of DurationSeconds over the closed slots named taskName among
\* the first n entries of a listing
RECURSIVE ListedTotal(_, _, _)
ListedTotal(list, n, taskName) ==
    IF n = 0 THEN 0
    ELSE (IF list[n].TaskName = taskName /\ list[n].EndTime # NULL
          THEN list[n].DurationSeconds ELSE 0) + ListedTotal(list, n - 1, taskName)

\* C15: for every date and every store state the statistics of the date are
\* over exactly the closed slots listed for the date: a task name is in the
\* statistics if and only if a closed slot of that name is listed, and its
\* total is the sum of duration_seconds over the listed closed slots.
C15_SameDayWindow ==
    \A date \in Dates :
        LET stats == GetTaskStatistics(slots, date)
        IN  \A list \in GetTimeSlotsByDate(slots, date) :
               /\ DOMAIN stats =
                     {list[k].TaskName : k \in {j \in 1..Len(list) : list[j].EndTime # NULL}}
               /\ \A n \in DOMAIN stats : stats[n] = ListedTotal(list, Len(list), n)

\* C15: a closed slot starts at the very end of a day's window (the first
\* instant of the next day), another closed slot inside the day
C15_Witness ==
    \E date \in Dates, i \in DOMAIN slots, j \in DOMAIN slots :
        /\ slots[i].end_time # NULL /\ slots[j].end_time # NULL
        /\ slots[i].start_time = EndOfDay(date)
        /\ StartOfDay(date) <= slots[j].start_time
        /\ slots[j].start_time < EndOfDay(date)
        /\ slots[j].duration_seconds >= 1
        /\ slots[j].task_name \in DOMAIN GetTaskStatistics(slots, date)

\* C19: each StopTimeSlot issued by start or stop targets a stored slot
\* whose end_time is absent: no start or stop call changes an end_time that
\* is set.
C19_NeverClosesClosedSlot ==
    [][(StartTimer \/ StopTimer) =>
          \A i \in DOMAIN slots :
             slots[i].end_time # NULL =>
                (i \in DOMAIN slots' /\ slots'[i].end_time = slots[i].end_time)]_vars

\* C20: when stop() closes the active slot at instant t, the
\* duration_seconds written to the store is elapsed() at t in whole seconds,
\* also after update changed the slot's start_time.
C20_ElapsedIsDuration ==
    [][(StopTimer /\ ret'.op = "Stop" /\ ~ret'.err /\ ~ret'.idle) =>
          slots'[activeSlot[1].ID].duration_seconds = Seconds(now - startTime)]_vars

\* The callers between t.mu.Lock() and the deferred t.mu.Unlock()
Inside == {c \in Callers : pc[c] \in {"select", "update", "create"}}

\* C12: start, stop and recover on the shared Timer exclude one another: at
\* most one caller is inside Start or Stop, and it holds the mutex; so, as
\* after calls made one after the other, at most one stored slot is active,
\* an active stored slot is the one the Timer references, the Timer runs
\* exactly when it references a slot, from that slot's start instant, and
\* once a start has returned a slot with no call in progress that slot is
\* the one active slot and the Timer references it (the Timer of a process
\* that is up).
C12_TimerCallsSerial ==
    /\ Cardinality(Inside) <= 1
    /\ \A c \in Inside : mu = c
    /\ Cardinality(ActiveIds) <= 1
    /\ alive =>
          /\ \A i \in ActiveIds : activeSlot # <<>> /\ activeSlot[1].ID = i
          /\ isRunning <=> activeSlot # <<>>
          /\ isRunning =>
                /\ startTime = activeSlot[1].StartTime
                /\ slots[activeSlot[1].ID].start_time = startTime
          /\ (ret.op = "Start" /\ ~ret.err /\ mu = 0) =>
                /\ activeSlot = ret.slot
                /\ ActiveIds = {ret.slot[1].ID}

\* C12: one caller is inside Start, having closed the running slot, while
\* the start of another caller waits for the mutex
C12_Witness ==
    \E c \in Callers, d \in Callers :
        /\ pc[c] = "create" /\ loc[c].id \in DOMAIN slots
        /\ slots[loc[c].id].end_time # NULL
        /\ pc[d] = "lockStart"

\* C18: each Record Store operation takes effect as one atomic step, also
\* when the close issued by stop or start runs at the same time as an update
\* of the same slot: the duration_seconds of every closed stored slot is its
\* stored end_time minus its stored start_time, in whole seconds.
C18_StoreOperationsAtomic ==
    \A i \in DOMAIN slots :
        slots[i].end_time # NULL =>
            WholeSeconds(slots[i].duration_seconds,
                         slots[i].end_time - slots[i].start_time)

\* C16: at each poll the long-session monitor sends an alert exactly when
\* the timer is running, elapsed >= 2 hours and no alert was sent in the
\* previous 2 hours, and then records the alert time: an alert is sent only
\* while the timer is running with elapsed >= notifyInterval and at least
\* notifyInterval after the alert before it, and a poll that ends without an
\* alert ends in a state where one of the three does not hold.
C16_LongSessionAlert ==
    [][NotifierPoll =>
          LET sent == alert'.n # alert.n
              due == /\ isRunning /\ activeSlot # <<>>
                     /\ now - startTime >= NotifyInterval
                     /\ (alert.n = 0 \/ now - alert.at >= NotifyInterval)
          IN  /\ sent => (due /\ lastNotifyTime' = now)
              /\ (notifier'.pc = "wait" /\ ~sent) => ~due]_vars

\* C17: a poll step of the tray monitor or of the long-session monitor
\* leaves activeSlot, isRunning, startTime and the store as they were, with
\* calls of start and stop between the steps.
C17_PollsChangeNothing ==
    [][(NotifierPoll \/ TrayPoll) =>
          /\ activeSlot' = activeSlot
          /\ isRunning' = isRunning
          /\ startTime' = startTime
          /\ slots' = slots
          /\ lastId' = lastId]_vars

\* C17: both monitors have polled a running timer: the tray shows the
\* elapsed time of a session of a second or more, an alert has been sent
C17_Witness ==
    /\ isRunning
    /\ tray.isRunning /\ tray.icon = "active"
    /\ tray.title.kind = "Elapsed" /\ tray.title.elapsed >= 1
    /\ alert.n >= 1 /\ lastNotifyTime = alert.at

\* C21: with a storage engine that does not fail, from every state reachable
\* by start, stop, update and delete calls, a stop() on a Running timer
\* succeeds and leaves it Idle, and a start(name) succeeds and leaves it
\* Running on the new slot.
C21_TimerMakesProgress ==
    [][/\ (StopTimer /\ isRunning /\ Stop(FALSE)) =>
             (~ret'.err /\ ~isRunning' /\ activeSlot' = <<>>)
       /\ (StartTimer /\ \E taskName \in TaskNames, d \in 0..MaxAdvance :
                             Start(taskName, d, FALSE, FALSE)) =>
             /\ ~ret'.err
             /\ isRunning'
             /\ activeSlot' = ret'.slot
             /\ activeSlot'[1].ID \in DOMAIN slots'
             /\ slots'[activeSlot'[1].ID].end_time = NULL]_vars

\* C22: after any sequence of start, stop, update and delete calls made one
\* at a time, every stored slot with an end_time has duration_seconds =
\* end_time - start_time in whole seconds and every stored slot without an
\* end_time has duration_seconds = 0.
C22_DurationInvariant ==
    \A i \in DOMAIN slots :
        IF slots[i].end_time = NULL
        THEN slots[i].duration_seconds = 0
        ELSE WholeSeconds(slots[i].duration_seconds,
                          slots[i].end_time - slots[i].start_time)

\* C22: the store holds a slot that stop closed after an odd number of
\* ticks (a second and a half) and a slot left active
C22_Witness ==
    \E i \in DOMAIN slots, j \in DOMAIN slots :
        /\ slots[i].end_time # NULL
        /\ slots[i].end_time - slots[i].start_time = TicksPerSecond + 1
        /\ slots[i].duration_seconds = 1
        /\ slots[j].end_time = NULL
        /\ ret.op \in {"Start", "Stop"}

\* The offsets from UTC, in ticks, of the zones the process may run in
ZoneOffsets == {-1, 0, 1}

\* The instant of 00:00:00 local time of the day `date` in the zone `off`
LocalMidnight(date, off) == date * TicksPerDay - off

\* C23: by_date(date) returns exactly the stored slots, closed and active,
\* whose start_time falls in the local-time window [date 00:00:00, next day
\* 00:00:00), in ascending start_time order, whatever the zone.
C23_ByDateLocalWindow ==
    \A off \in ZoneOffsets, date \in Dates :
        \A list \in GetTimeSlotsByDate(slots, date) :
            /\ {list[k].ID : k \in 1..Len(list)} =
                  {i \in DOMAIN slots :
                      /\ LocalMidnight(date, off) <= slots[i].start_time
                      /\ slots[i].start_time < LocalMidnight(date + 1, off)}
            /\ \A a, b \in 1..Len(list) :
                  a < b => list[a].StartTime <= list[b].StartTime

\* C24: active() returns none exactly when no stored slot has an absent
\* end_time; otherwise it returns a stored slot with absent end_time whose
\* start_time is the greatest among such slots, never a closed slot.
C24_ActiveIsMostRecent ==
    LET found == GetActiveTimeSlot(slots)
    IN  /\ found = {} <=> ActiveIds = {}
        /\ \A s \in found :
              /\ s.ID \in DOMAIN slots
              /\ slots[s.ID].end_time = NULL /\ s.EndTime = NULL
              /\ s.StartTime = slots[s.ID].start_time
              /\ s.TaskName = slots[s.ID].task_name
              /\ \A j \in DOMAIN slots :
                    slots[j].end_time = NULL => slots[j].start_time <= s.StartTime

\* C24: two stored slots are active, started at different instants, beside
\* a process restarted over them: it runs on the one started last
C24_Witness ==
    \E i \in ActiveIds, j \in ActiveIds :
        /\ slots[i].start_time < slots[j].start_time
        /\ ret.op = "NewApp" /\ ~ret.err
        /\ activeSlot # <<>> /\ activeSlot[1].ID = j

\* C25: after a successful delete(id) the id is in no by_date listing and
\* the statistics are those of the other records, which are unchanged; and
\* every id a create assigns is greater than every id assigned before.
C25_DeleteIsPermanent ==
    [][/\ (DeleteTimeSlotCall /\ ~ret'.err) =>
             LET id == ret'.id
                 others == [i \in DOMAIN slots \ {id} |-> slots[i]]
             IN  /\ slots' = others
                 /\ \A date \in Dates :
                       /\ \A list \in GetTimeSlotsByDate(slots', date) :
                             \A k \in 1..Len(list) : list[k].ID # id
                       /\ GetTaskStatistics(slots', date) = GetTaskStatistics(others, date)
       /\ \A i \in DOMAIN slots' \ DOMAIN slots : i > lastId /\ lastId' = i
       /\ lastId' >= lastId
       /\ \A i \in DOMAIN slots' : i <= lastId']_vars

\* C25: a slot was created after the slot with the greatest id was deleted
C25_Witness ==
    /\ ret.op = "Start" /\ ~ret.err
    /\ ret.slot[1].ID = 2
    /\ DOMAIN slots = {2}
    /\ edits = 1

\* The step is an update or a delete, or it leaves the last call as it
\* was: time passing (or a call that repeats the last one's result)
EditOrTick ==
    \/ ret'.op \in {"UpdateTimeSlot", "handleSave", "DeleteTimeSlot"}
    \/ ret' = ret

\* C26: elapsed() is zero whenever the timer is Idle; while it is Running,
\* over update, delete and the passing of time (no start, stop or recover)
\* it does not decrease and is now minus the in-memory start instant.
C26_ElapsedMonotonic ==
    [][/\ ~isRunning => GetElapsedTime(now) = 0
       /\ (isRunning /\ EditOrTick) =>
             /\ GetElapsedTime(now)' >= GetElapsedTime(now)
             /\ GetElapsedTime(now)' = now' - startTime
             /\ startTime' = startTime]_vars

\* C26: the start_time of the slot the timer runs on has been moved by an
\* update, a second or more into the session
C26_Witness ==
    /\ isRunning /\ activeSlot # <<>>
    /\ activeSlot[1].ID \in DOMAIN slots
    /\ slots[activeSlot[1].ID].start_time # startTime
    /\ GetElapsedTime(now) >= TicksPerSecond

\* C27: after every tray poll the tray's recorded isRunning is the Timer's
\* running flag read in the poll, and the icon is swapped in exactly the
\* polls where the flag read differs from the one recorded before; so the
\* icon shown always goes with the recorded flag.
C27_TrayFollowsTimer ==
    [][/\ UpdateStatus =>
             /\ tray'.isRunning = isRunning
             /\ tray'.icon # tray.icon <=> tray.isRunning # isRunning
       /\ tray'.icon = (IF tray'.isRunning THEN "active" ELSE "inactive")]_vars

\* C27: the indicator is stale: the tray still shows a running timer after
\* a stop, before its next poll
C27_Witness ==
    /\ tray.pc = "wait"
    /\ tray.isRunning /\ tray.icon = "active"
    /\ ~isRunning
    /\ ret.op = "Stop" /\ ~ret.err /\ ~ret.idle

\* C28: with only start and stop calls, of any two stored slots the one
\* created earlier has an end_time, not after the start_time of the later
\* one, and not before its own start_time; the only slot without an
\* end_time is the one created last.
C28_NoOverlap ==
    /\ \A i \in DOMAIN slots, j \in DOMAIN slots :
          i < j =>
             /\ slots[i].end_time # NULL
             /\ slots[i].start_time <= slots[i].end_time
             /\ slots[i].end_time <= slots[j].start_time
    /\ \A i \in DOMAIN slots : slots[i].end_time = NULL => i = lastId

\* C28: two slots started and stopped one after the other, the first of
\* them of non-zero length, with a gap before the second
C28_Witness ==
    /\ DOMAIN slots = {1, 2}
    /\ slots[1].end_time # NULL /\ slots[2].end_time # NULL
    /\ slots[1].end_time < slots[2].start_time
    /\ slots[1].start_time < slots[1].end_time

\* C29: in every Timer state seen with the lock free, isRunning is true
\* exactly when activeSlot is non-nil, a non-nil activeSlot has no end time
\* in memory, and elapsed() is non-zero only while isRunning.
C29_RunningIffActiveSlot ==
    /\ isRunning <=> activeSlot # <<>>
    /\ activeSlot # <<>> => activeSlot[1].EndTime = NULL
    /\ IsTimerRunning <=> AppGetActiveTimeSlot # <<>>
    /\ \A t \in now..MaxTime : GetElapsedTime(t) # 0 => isRunning

\* C29: the Timer was restarted over a store whose last slot is closed and
\* is Idle, the store holding no active slot
C29_Witness ==
    /\ ret.op = "NewApp" /\ ~ret.err
    /\ ~isRunning /\ activeSlot = <<>>
    /\ DOMAIN slots # {} /\ ActiveIds = {}

\* C30: every long-session alert names the task of the slot the Timer is
\* running at the moment it is sent, and that slot has been running for
\* notifyInterval or more, with start and stop calls between the monitor's
\* three reads.
C30_AlertNamesLongTask ==
    [][(PollSlot /\ alert'.n # alert.n) =>
          /\ activeSlot # <<>>
          /\ alert'.task = activeSlot[1].TaskName
          /\ now - activeSlot[1].StartTime >= NotifyInterval]_vars

\* C31: Start and Stop never block on the notify channel: the channel never
\* holds more than its capacity of 1, once it holds a value every later
\* notification is dropped (nothing receives; only a restart makes a new
\* channel), a caller that is out of its call does not hold the lock, and
\* every call that was made returns.
C31_NotifyNeverBlocks ==
    /\ [](Len(notifyChannel) <= ChanCap)
    /\ [][Len(notifyChannel) = ChanCap =>
             notifyChannel' \in {notifyChannel, <<>>}]_vars
    /\ [](\A c \in Callers : pc[c] \in {"idle", "lockStart", "lockStop"} => mu # c)
    /\ \A c \in Callers : (pc[c] # "idle") ~> (pc[c] = "idle")

\* C31: a stop returned to its caller with the lock free, its notification
\* dropped: the channel still holds the value of the first start
C31_Witness ==
    /\ notifyChannel = <<TRUE>>
    /\ ret.op = "Stop" /\ ~ret.err /\ ~ret.idle
    /\ mu = 0
    /\ \A c \in Callers : pc[c] = "idle"

====
